---- MODULE Spec2Model ----
(***************************************************************************)
(* Model of the HL7/MLLP exchange-and-queue subsystem of                   *)
(* src/src/server_client_system.py: the inbound listener                   *)
(* (store_msg_produce_ack), the work queue (input_msg_queue), the retry    *)
(* worker (msg_worker), the outbound sender (start_client) and the         *)
(* clean-up loop (cleanup_worker).                                         *)
(***************************************************************************)
EXTENDS Integers, Sequences, FiniteSets, TLC

\* ------------------------------------------------------------------ bounds
\* number of inbound connections the upstream peer opens
MaxSessions == 2
\* largest number of bytes one recv() call returns
MaxChunk == 2
\* longest payload and longest run of leading bytes of a decoder run
MaxPayloadLen == 2
MaxGarbageLen == 2

\* --------------------------------------------------------------- constants
\* MLLP start byte b'\x0b'
SB == 11
\* MLLP end bytes b'\x1c' b'\x0d'
EB == 28
CR == 13
\* retry ceiling nmax of main()
nmax == 3

footer == <<EB, CR>>

\* payloads (HL7 text as bytes) the upstream peer sends
Payloads == {<<65, 66>>, <<255>>}
\* bytes the upstream peer may send before the start byte
Garbage == {<<>>, <<7>>}

\* the byte streams the upstream peer may send for a payload: the MLLP frame,
\* the frame after other bytes, and the payload and end bytes with no start
\* byte before them
Frames(p) == {g \o <<SB>> \o p \o footer : g \in Garbage} \cup {p \o footer}

Items == 1..MaxSessions

\* the worker threads started by main(): exactly one msg_worker thread
WorkerThreads2 == {"w1", "w2"}
WorkerThreads == {"w1"}

NoItem == [id |-> 0, msg |-> <<>>, retry |-> 0]

\* ------------------------------------------------------------ pure helpers
Min(a, b) == IF a < b THEN a ELSE b
Max(a, b) == IF a > b THEN a ELSE b

\* (variant: the loop condition looks at the last byte only)
EndsWithLastByte(s, pat) ==
    /\ Len(s) >= 1
    /\ s[Len(s)] = pat[Len(pat)]

\* bytes.endswith(pat)
EndsWith(s, pat) ==
    /\ Len(s) >= Len(pat)
    /\ SubSeq(s, Len(s) - Len(pat) + 1, Len(s)) = pat

\* bytes.find(pat): 0-based index of the first occurrence, -1 if there is none
Find(s, pat) ==
    LET hits == {i \in 1..(Len(s) - Len(pat) + 1) : SubSeq(s, i, i + Len(pat) - 1) = pat}
    IN IF hits = {} THEN -1
       ELSE (CHOOSE i \in hits : \A j \in hits : i <= j) - 1

\* bytes[a:b] with Python's treatment of negative and out-of-range indices
PySlice(s, a, b) ==
    LET n == Len(s)
        lo == IF a < 0 THEN Max(a + n, 0) ELSE Min(a, n)
        hi == IF b < 0 THEN Max(b + n, 0) ELSE Min(b, n)
    IN IF lo < hi THEN SubSeq(s, lo + 1, hi) ELSE <<>>

strip_mllp_framing_NoSkip(byte_stream) ==
    PySlice(byte_stream, Find(byte_stream, <<SB>>), Find(byte_stream, footer))

strip_mllp_framing(byte_stream) ==
    PySlice(byte_stream, Find(byte_stream, <<SB>>) + 1, Find(byte_stream, footer))

\* hl7apy Message.to_mllp(): start byte, text, end bytes
to_mllp(text) == <<SB>> \o text \o footer

\* bytes.decode('utf-8') succeeds on these bytes (single-byte code points only;
\* no byte of the model starts a multi-byte sequence)
Utf8Valid(bytes) == \A i \in 1..Len(bytes) : bytes[i] < 128

\* the code points of a valid single-byte sequence are the byte values
Utf8Decode(bytes) == [i \in 1..Len(bytes) |-> bytes[i]]

\* the retry rule of msg_worker: "if retry < num_retries"
CanRetry_Never(retry) == retry > nmax
CanRetry_OffByOne(retry) == retry <= nmax
CanRetry(retry) == retry < nmax

\* all byte sequences over a set of bytes, up to a length
SeqsUpTo(bytes, n) == UNION {[1..k -> bytes] : k \in 0..n}

\* the bytes of a decoder run: the three marker bytes and one other byte
Alphabet == {SB, EB, CR} \cup {65}

\* the text of the ACK built by create_ack_msg.create_message for an order:
\* a message of type ACK (first byte) that echoes the order's control id
AckText(order) == <<6>> \o order

\* the text of the OUL^R21 built by create_output_msg.create_msg for an order
ResultText(order) == <<5>> \o order

\* the acknowledgment the downstream peer (AP-LIS) frames for a result
DownstreamAck == to_mllp(<<6>>)

\* input_msg_queue.queue.insert(0, item)
InsertBack(q, item) == Append(q, item)
InsertFront(q, item) == <<item>> \o q

\* ------------------------------------------------------------------- state
VARIABLES
    queue,            \* input_msg_queue.queue: the deque of (msg, retry) items
    unfinished_tasks, \* input_msg_queue.unfinished_tasks
    lpc,              \* position of the listener thread (store_msg_produce_ack)
    lerr,             \* the call whose exception ended the listener, or "none"
    nsess,            \* connections accepted so far; the current one is nsess
    conn,             \* the accepted socket as the peer left it
    wire,             \* bytes the upstream peer has still to send
    sent_payload,     \* the payload the peer framed in the current connection
    input_msg,        \* listener local: bytes received so far
    eof_seen,         \* recv() has returned b'' in the current connection
    hl7_msg_decoded,  \* listener local: the unframed, decoded order
    ack_msg,          \* listener local: the ACK text built for the order
    nput,             \* items the current connection has put on the queue
    ack_out,          \* bytes written back on the current connection
    wpc,              \* position of each worker thread (msg_worker)
    werr,             \* the call whose exception ended the worker, or "none"
    cur,              \* worker local: the (msg, retry) taken from the queue
    oul_r21_out,      \* worker local: the framed result
    csock,            \* client_socket of start_client
    ack,              \* start_client local: acknowledgment bytes received
    ack_eof_seen,     \* recv() has returned b'' in the current start_client call
    dwire,            \* bytes the downstream peer has still to send
    dconn,            \* the outbound connection as the downstream peer left it
    calls,            \* per item: run_inference invocations
    fails,            \* per item: run_inference invocations that raised
    starts,           \* per item: start_client calls
    delivered,        \* per item: bytes handed to sendall
    sleeps,           \* per item: time.sleep(delay_secs) calls
    abandoned,        \* per item: dropped after exhausting the retries
    done,             \* per item: task_done calls
    spc,              \* position of the clean-up thread (cleanup_worker)
    c_garbage,        \* decoder run: bytes the sender put before the start byte
    c_payload,        \* decoder run: the payload the sender framed
    c_rest,           \* decoder run: bytes not yet received
    c_buf,            \* decoder run: bytes received so far (input_msg / ack)
    c_nrecv,          \* decoder run: recv() calls made
    c_pc,             \* decoder run: "idle", "recv" or "returned"
    c_out             \* decoder run: the bytes strip_mllp_framing returned

lvars == <<lpc, lerr, nsess, conn, wire, sent_payload, input_msg, eof_seen,
           hl7_msg_decoded, ack_msg, nput, ack_out>>
wvars == <<wpc, werr, cur, oul_r21_out, csock, ack, ack_eof_seen, dwire, dconn>>
hvars == <<calls, fails, starts, delivered, sleeps, abandoned, done>>
qvars == <<queue, unfinished_tasks>>
cvars == <<c_garbage, c_payload, c_rest, c_buf, c_nrecv, c_pc, c_out>>
sysvars == <<qvars, lvars, wvars, hvars, spc>>
vars == <<qvars, lvars, wvars, hvars, spc, cvars>>

SysInit ==
    /\ queue = <<>>
    /\ unfinished_tasks = 0
    /\ lpc = "accept"
    /\ lerr = "none"
    /\ nsess = 0
    /\ conn = "none"
    /\ wire = <<>>
    /\ sent_payload = <<>>
    /\ input_msg = <<>>
    /\ eof_seen = FALSE
    /\ hl7_msg_decoded = <<>>
    /\ ack_msg = <<>>
    /\ nput = 0
    /\ ack_out = <<>>
    /\ wpc = [w \in WorkerThreads |-> "get"]
    /\ werr = [w \in WorkerThreads |-> "none"]
    /\ cur = [w \in WorkerThreads |-> NoItem]
    /\ oul_r21_out = [w \in WorkerThreads |-> <<>>]
    /\ csock = [w \in WorkerThreads |-> "none"]
    /\ ack = [w \in WorkerThreads |-> <<>>]
    /\ ack_eof_seen = [w \in WorkerThreads |-> FALSE]
    /\ dwire = [w \in WorkerThreads |-> <<>>]
    /\ dconn = [w \in WorkerThreads |-> "none"]
    /\ calls = [i \in Items |-> 0]
    /\ fails = [i \in Items |-> 0]
    /\ starts = [i \in Items |-> 0]
    /\ delivered = [i \in Items |-> <<>>]
    /\ sleeps = [i \in Items |-> 0]
    /\ abandoned = [i \in Items |-> FALSE]
    /\ done = [i \in Items |-> 0]
    /\ spc = "remove_slides"

\* no decoder run is followed on its own
CodecIdle ==
    /\ c_garbage = <<>>
    /\ c_payload = <<>>
    /\ c_rest = <<>>
    /\ c_buf = <<>>
    /\ c_nrecv = 0
    /\ c_pc = "idle"
    /\ c_out = <<>>

Init == SysInit /\ CodecIdle

\* ---------------------------------------------------------- upstream peer
\* the peer (AP-LIS) connects and the listener's accept() returns
Accept ==
    /\ lpc = "accept"
    /\ nsess < MaxSessions
    /\ \E p \in Payloads : \E f \in Frames(p) :
          /\ wire' = f
          /\ sent_payload' = p
    /\ nsess' = nsess + 1
    /\ conn' = "open"
    /\ input_msg' = <<>>
    /\ eof_seen' = FALSE
    /\ nput' = 0
    /\ ack_out' = <<>>
    /\ lpc' = "recv"
    /\ UNCHANGED <<lerr, hl7_msg_decoded, ack_msg, qvars, wvars, hvars, spc, cvars>>

\* the peer closes its end before it has sent the whole frame
PeerClose ==
    /\ lpc = "recv" /\ conn = "open" /\ wire # <<>>
    /\ conn' = "eof"
    /\ wire' = <<>>
    /\ UNCHANGED <<lpc, lerr, nsess, sent_payload, input_msg, eof_seen,
                   hl7_msg_decoded, ack_msg, nput, ack_out, qvars, wvars, hvars, spc, cvars>>

\* the peer resets the connection before it has sent the whole frame
PeerReset ==
    /\ lpc = "recv" /\ conn = "open" /\ wire # <<>>
    /\ conn' = "reset"
    /\ wire' = <<>>
    /\ UNCHANGED <<lpc, lerr, nsess, sent_payload, input_msg, eof_seen,
                   hl7_msg_decoded, ack_msg, nput, ack_out, qvars, wvars, hvars, spc, cvars>>

\* -------------------------------------------------------------- listener
\* one pass of "while not input_msg.endswith(footer): input_msg += recv(4096)"
\* that receives bytes
Recv ==
    /\ lpc = "recv" /\ conn = "open" /\ wire # <<>>
    /\ ~EndsWith(input_msg, footer)
    /\ \E n \in 1..Min(MaxChunk, Len(wire)) :
          /\ input_msg' = input_msg \o SubSeq(wire, 1, n)
          /\ wire' = SubSeq(wire, n + 1, Len(wire))
    /\ UNCHANGED <<lpc, lerr, nsess, conn, sent_payload, eof_seen,
                   hl7_msg_decoded, ack_msg, nput, ack_out, qvars, wvars, hvars, spc, cvars>>

\* (variant: an empty read ends the loop as if the frame were complete)
RecvEmptyBreaks ==
    /\ lpc = "recv" /\ conn = "eof"
    /\ ~EndsWith(input_msg, footer)
    /\ eof_seen' = TRUE
    /\ hl7_msg_decoded' = Utf8Decode(strip_mllp_framing(input_msg))
    /\ lpc' = "create_message"
    /\ UNCHANGED <<lerr, nsess, conn, wire, sent_payload, input_msg,
                   ack_msg, nput, ack_out, qvars, wvars, hvars, spc, cvars>>

\* one pass of the same loop after the peer closed: recv() returns b'' and the
\* loop condition is unchanged
RecvEmpty ==
    /\ lpc = "recv" /\ conn = "eof"
    /\ ~EndsWith(input_msg, footer)
    /\ eof_seen' = TRUE
    /\ UNCHANGED <<lpc, lerr, nsess, conn, wire, sent_payload, input_msg,
                   hl7_msg_decoded, ack_msg, nput, ack_out, qvars, wvars, hvars, spc, cvars>>

\* recv() raises ConnectionResetError; nothing in store_msg_produce_ack or
\* main() catches it
RecvRaises ==
    /\ lpc = "recv" /\ conn = "reset"
    /\ ~EndsWith(input_msg, footer)
    /\ lpc' = "dead"
    /\ lerr' = "recv"
    /\ UNCHANGED <<nsess, conn, wire, sent_payload, input_msg, eof_seen,
                   hl7_msg_decoded, ack_msg, nput, ack_out, qvars, wvars, hvars, spc, cvars>>

\* the loop ends; strip_mllp_framing and decode('utf-8')
Strip ==
    /\ lpc = "recv"
    /\ EndsWith(input_msg, footer)
    /\ IF Utf8Valid(strip_mllp_framing(input_msg))
       THEN /\ hl7_msg_decoded' = Utf8Decode(strip_mllp_framing(input_msg))
            /\ lpc' = "create_message"
            /\ lerr' = lerr
       ELSE /\ hl7_msg_decoded' = hl7_msg_decoded
            /\ lpc' = "dead"
            /\ lerr' = "decode"
    /\ UNCHANGED <<nsess, conn, wire, sent_payload, input_msg, eof_seen,
                   ack_msg, nput, ack_out, qvars, wvars, hvars, spc, cvars>>

\* ack_msg = create_ack_msg.create_message(hl7_msg_decoded); parse_message may
\* raise on an order hl7apy cannot parse, and nothing catches it
CreateAckSkipPut ==
    /\ lpc = "create_message"
    /\ \/ /\ ack_msg' = AckText(hl7_msg_decoded)
          /\ lpc' = "send"
          /\ lerr' = lerr
       \/ /\ ack_msg' = ack_msg
          /\ lpc' = "dead"
          /\ lerr' = "create_message"
    /\ UNCHANGED <<nsess, conn, wire, sent_payload, input_msg, eof_seen,
                   hl7_msg_decoded, nput, ack_out, qvars, wvars, hvars, spc, cvars>>

CreateAck ==
    /\ lpc = "create_message"
    /\ \/ /\ ack_msg' = AckText(hl7_msg_decoded)
          /\ lpc' = "put"
          /\ lerr' = lerr
       \/ /\ ack_msg' = ack_msg
          /\ lpc' = "dead"
          /\ lerr' = "create_message"
    /\ UNCHANGED <<nsess, conn, wire, sent_payload, input_msg, eof_seen,
                   hl7_msg_decoded, nput, ack_out, qvars, wvars, hvars, spc, cvars>>

\* (variant: put appends without waking a thread blocked in get)
PutNoNotify ==
    /\ lpc = "put"
    /\ queue' = Append(queue, [id |-> nsess, msg |-> hl7_msg_decoded, retry |-> 0])
    /\ unfinished_tasks' = unfinished_tasks + 1
    /\ nput' = nput + 1
    /\ lpc' = "send"
    /\ UNCHANGED <<lerr, nsess, conn, wire, sent_payload, input_msg, eof_seen,
                   hl7_msg_decoded, ack_msg, ack_out, wvars, hvars, spc, cvars>>

\* msg_queue.put((hl7_msg_decoded, 0)): append, count the unfinished task and
\* wake one thread blocked in get (Queue.put: not_empty.notify())
Put ==
    /\ lpc = "put"
    /\ queue' = Append(queue, [id |-> nsess, msg |-> hl7_msg_decoded, retry |-> 0])
    /\ unfinished_tasks' = unfinished_tasks + 1
    /\ nput' = nput + 1
    /\ lpc' = "send"
    /\ \/ /\ \A w \in WorkerThreads : wpc[w] # "wait"
          /\ wpc' = wpc
       \/ \E w \in WorkerThreads :
             /\ wpc[w] = "wait"
             /\ wpc' = [wpc EXCEPT ![w] = "get"]
    /\ UNCHANGED <<lerr, nsess, conn, wire, sent_payload, input_msg, eof_seen,
                   hl7_msg_decoded, ack_msg, ack_out, werr, cur, oul_r21_out, csock,
                   ack, ack_eof_seen, dwire, dconn, hvars, spc, cvars>>

\* (variant: the loop goes back to accept() without closing the socket)
SendSkipsClose ==
    /\ lpc = "send"
    /\ ack_out' = to_mllp(ack_msg)
    /\ lpc' = "accept"
    /\ UNCHANGED <<lerr, nsess, conn, wire, sent_payload, input_msg, eof_seen,
                   hl7_msg_decoded, ack_msg, nput, qvars, wvars, hvars, spc, cvars>>

\* commun_socket.send(ack_msg.to_mllp().encode('utf-8')); send may raise
\* (BrokenPipeError, ConnectionResetError) and nothing catches it
Send ==
    /\ lpc = "send"
    /\ \/ /\ ack_out' = to_mllp(ack_msg)
          /\ lpc' = "close"
          /\ lerr' = lerr
       \/ /\ ack_out' = ack_out
          /\ lpc' = "dead"
          /\ lerr' = "send"
    /\ UNCHANGED <<nsess, conn, wire, sent_payload, input_msg, eof_seen,
                   hl7_msg_decoded, ack_msg, nput, qvars, wvars, hvars, spc, cvars>>

\* commun_socket.close(); back to accept()
Close ==
    /\ lpc = "close"
    /\ conn' = "none"
    /\ lpc' = "accept"
    /\ UNCHANGED <<lerr, nsess, wire, sent_payload, input_msg, eof_seen,
                   hl7_msg_decoded, ack_msg, nput, ack_out, qvars, wvars, hvars, spc, cvars>>

Listener ==
    \/ Recv
    \/ RecvEmpty
    \/ RecvRaises
    \/ Strip
    \/ CreateAck
    \/ Put
    \/ Send
    \/ Close

\* ---------------------------------------------------------------- worker
\* the worker and clean-up threads are daemon threads: they run only while
\* the main thread, which runs the listener, has not ended
ProcessAlive == lpc # "dead"

\* input_msg_queue.get() finds the queue empty and blocks (Queue.get:
\* not_empty.wait()) until a put wakes it
GetWait(w) ==
    /\ ProcessAlive
    /\ wpc[w] = "get"
    /\ queue = <<>>
    /\ wpc' = [wpc EXCEPT ![w] = "wait"]
    /\ UNCHANGED <<qvars, lvars, werr, cur, oul_r21_out, csock, ack, ack_eof_seen, dwire,
                   dconn, hvars, spc, cvars>>

\* msg, retry = input_msg_queue.get() finds an item and takes the head
Get(w) ==
    /\ ProcessAlive
    /\ wpc[w] = "get"
    /\ queue # <<>>
    /\ cur' = [cur EXCEPT ![w] = Head(queue)]
    /\ queue' = Tail(queue)
    /\ wpc' = [wpc EXCEPT ![w] = "extract_msg_info"]
    /\ UNCHANGED <<unfinished_tasks, lvars, werr, oul_r21_out, csock, ack, ack_eof_seen, dwire,
                   dconn, hvars, spc, cvars>>

\* read_input_msg.extract_msg_info(msg), outside any try: it returns and
\* run_inference is entered, or it raises and the thread ends
ExtractMsgInfo(w) ==
    /\ ProcessAlive
    /\ wpc[w] = "extract_msg_info"
    /\ \/ /\ wpc' = [wpc EXCEPT ![w] = "run_inference"]
          /\ calls' = [calls EXCEPT ![cur[w].id] = @ + 1]
          /\ werr' = werr
       \/ /\ wpc' = [wpc EXCEPT ![w] = "dead"]
          /\ werr' = [werr EXCEPT ![w] = "extract_msg_info"]
          /\ calls' = calls
    /\ UNCHANGED <<qvars, lvars, cur, oul_r21_out, csock, ack, ack_eof_seen, dwire, dconn,
                   fails, starts, delivered, sleeps, abandoned, done, spc, cvars>>

\* model_inference.run_inference returns
InferenceReturns(w) ==
    /\ ProcessAlive
    /\ wpc[w] = "run_inference"
    /\ wpc' = [wpc EXCEPT ![w] = "create_msg"]
    /\ UNCHANGED <<qvars, lvars, werr, cur, oul_r21_out, csock, ack, ack_eof_seen, dwire, dconn,
                   hvars, spc, cvars>>

\* (variant: the item is reinserted at once, without time.sleep)
InferenceRaisesNoBackoff(w) ==
    /\ ProcessAlive
    /\ wpc[w] = "run_inference"
    /\ fails' = [fails EXCEPT ![cur[w].id] = @ + 1]
    /\ wpc' = [wpc EXCEPT ![w] = "get"]
    /\ cur' = [cur EXCEPT ![w] = NoItem]
    /\ IF CanRetry(cur[w].retry)
       THEN /\ queue' = InsertFront(queue, [cur[w] EXCEPT !.retry = @ + 1])
            /\ UNCHANGED <<unfinished_tasks, abandoned, done>>
       ELSE /\ unfinished_tasks' = unfinished_tasks - 1
            /\ abandoned' = [abandoned EXCEPT ![cur[w].id] = TRUE]
            /\ done' = [done EXCEPT ![cur[w].id] = @ + 1]
            /\ queue' = queue
    /\ UNCHANGED <<lvars, werr, oul_r21_out, csock, ack, ack_eof_seen, dwire, dconn,
                   calls, starts, delivered, sleeps, spc, cvars>>

\* model_inference.run_inference raises: "except Exception" applies the retry
\* rule; with retry < num_retries the worker sleeps before it reinserts,
\* otherwise task_done() and continue
InferenceRaises(w) ==
    /\ ProcessAlive
    /\ wpc[w] = "run_inference"
    /\ fails' = [fails EXCEPT ![cur[w].id] = @ + 1]
    /\ IF CanRetry(cur[w].retry)
       THEN /\ wpc' = [wpc EXCEPT ![w] = "sleep"]
            /\ sleeps' = [sleeps EXCEPT ![cur[w].id] = @ + 1]
            /\ UNCHANGED <<cur, unfinished_tasks, abandoned, done>>
       ELSE /\ wpc' = [wpc EXCEPT ![w] = "get"]
            /\ unfinished_tasks' = unfinished_tasks - 1
            /\ abandoned' = [abandoned EXCEPT ![cur[w].id] = TRUE]
            /\ done' = [done EXCEPT ![cur[w].id] = @ + 1]
            /\ cur' = [cur EXCEPT ![w] = NoItem]
            /\ sleeps' = sleeps
    /\ UNCHANGED <<queue, lvars, werr, oul_r21_out, csock, ack, ack_eof_seen, dwire, dconn,
                   calls, starts, delivered, spc, cvars>>

\* (variant: the reinsertion is counted as a new put)
RequeueCountsPut(w) ==
    /\ ProcessAlive
    /\ wpc[w] = "sleep"
    /\ queue' = InsertFront(queue, [cur[w] EXCEPT !.retry = @ + 1])
    /\ unfinished_tasks' = unfinished_tasks + 1
    /\ cur' = [cur EXCEPT ![w] = NoItem]
    /\ wpc' = [wpc EXCEPT ![w] = "get"]
    /\ UNCHANGED <<lvars, werr, oul_r21_out, csock, ack, ack_eof_seen, dwire,
                   dconn, hvars, spc, cvars>>

\* (variant: after the sleep the item is dropped instead of reinserted)
RequeueDrops(w) ==
    /\ ProcessAlive
    /\ wpc[w] = "sleep"
    /\ cur' = [cur EXCEPT ![w] = NoItem]
    /\ wpc' = [wpc EXCEPT ![w] = "get"]
    /\ UNCHANGED <<qvars, lvars, werr, oul_r21_out, csock, ack, ack_eof_seen, dwire,
                   dconn, hvars, spc, cvars>>

\* time.sleep(delay_secs) is over: input_msg_queue.queue.insert(0, (msg, retry + 1))
\* and continue
Requeue(w) ==
    /\ ProcessAlive
    /\ wpc[w] = "sleep"
    /\ queue' = InsertFront(queue, [cur[w] EXCEPT !.retry = @ + 1])
    /\ cur' = [cur EXCEPT ![w] = NoItem]
    /\ wpc' = [wpc EXCEPT ![w] = "get"]
    /\ UNCHANGED <<unfinished_tasks, lvars, werr, oul_r21_out, csock, ack, ack_eof_seen, dwire,
                   dconn, hvars, spc, cvars>>

\* the 100 calls of create_output_msg.create_msg and to_mllp().encode('utf-8'),
\* outside any try: the result is built, or a call raises and the thread ends
CreateMsg(w) ==
    /\ ProcessAlive
    /\ wpc[w] = "create_msg"
    /\ \/ /\ oul_r21_out' = [oul_r21_out EXCEPT ![w] = to_mllp(ResultText(cur[w].msg))]
          /\ wpc' = [wpc EXCEPT ![w] = "start_client"]
          /\ werr' = werr
       \/ /\ oul_r21_out' = oul_r21_out
          /\ wpc' = [wpc EXCEPT ![w] = "dead"]
          /\ werr' = [werr EXCEPT ![w] = "create_msg"]
    /\ UNCHANGED <<qvars, lvars, cur, csock, ack, ack_eof_seen, dwire, dconn, hvars, spc, cvars>>

\* (variant: a refused connection puts the item back on the queue)
ConnectRequeues(w) ==
    /\ ProcessAlive
    /\ wpc[w] = "start_client"
    /\ starts' = [starts EXCEPT ![cur[w].id] = @ + 1]
    /\ \/ /\ csock' = [csock EXCEPT ![w] = "connected"]
          /\ wpc' = [wpc EXCEPT ![w] = "sendall"]
          /\ UNCHANGED <<queue, cur>>
       \/ /\ csock' = [csock EXCEPT ![w] = "closed"]
          /\ wpc' = [wpc EXCEPT ![w] = "get"]
          /\ queue' = InsertFront(queue, cur[w])
          /\ cur' = [cur EXCEPT ![w] = NoItem]
    /\ UNCHANGED <<unfinished_tasks, lvars, werr, oul_r21_out, ack, ack_eof_seen, dwire,
                   dconn, calls, fails, delivered, sleeps, abandoned, done, spc, cvars>>

\* start_client: socket() and connect(address_lis); a refused connection raises,
\* "finally" closes the socket and the exception leaves msg_worker uncaught
Connect(w) ==
    /\ ProcessAlive
    /\ wpc[w] = "start_client"
    /\ starts' = [starts EXCEPT ![cur[w].id] = @ + 1]
    /\ \/ /\ csock' = [csock EXCEPT ![w] = "connected"]
          /\ wpc' = [wpc EXCEPT ![w] = "sendall"]
          /\ werr' = werr
       \/ /\ csock' = [csock EXCEPT ![w] = "closed"]
          /\ wpc' = [wpc EXCEPT ![w] = "dead"]
          /\ werr' = [werr EXCEPT ![w] = "start_client"]
    /\ UNCHANGED <<qvars, lvars, cur, oul_r21_out, ack, ack_eof_seen, dwire, dconn,
                   calls, fails, delivered, sleeps, abandoned, done, spc, cvars>>

\* client_socket.sendall(msg) and ack = b''; the downstream peer then has its
\* acknowledgment to send
Sendall(w) ==
    /\ ProcessAlive
    /\ wpc[w] = "sendall"
    /\ \/ /\ delivered' = [delivered EXCEPT ![cur[w].id] = oul_r21_out[w]]
          /\ ack' = [ack EXCEPT ![w] = <<>>]
          /\ ack_eof_seen' = [ack_eof_seen EXCEPT ![w] = FALSE]
          /\ dwire' = [dwire EXCEPT ![w] = DownstreamAck]
          /\ dconn' = [dconn EXCEPT ![w] = "open"]
          /\ wpc' = [wpc EXCEPT ![w] = "recv_ack"]
          /\ UNCHANGED <<csock, werr>>
       \/ /\ csock' = [csock EXCEPT ![w] = "closed"]
          /\ wpc' = [wpc EXCEPT ![w] = "dead"]
          /\ werr' = [werr EXCEPT ![w] = "start_client"]
          /\ UNCHANGED <<delivered, ack, ack_eof_seen, dwire, dconn>>
    /\ UNCHANGED <<qvars, lvars, cur, oul_r21_out, calls, fails, starts, sleeps,
                   abandoned, done, spc, cvars>>

\* the downstream peer closes before it has sent the whole acknowledgment
DownClose(w) ==
    /\ wpc[w] = "recv_ack" /\ dconn[w] = "open" /\ dwire[w] # <<>>
    /\ dconn' = [dconn EXCEPT ![w] = "eof"]
    /\ dwire' = [dwire EXCEPT ![w] = <<>>]
    /\ UNCHANGED <<qvars, lvars, wpc, werr, cur, oul_r21_out, csock, ack,
                   ack_eof_seen, hvars, spc, cvars>>

\* the downstream peer resets before it has sent the whole acknowledgment
DownReset(w) ==
    /\ wpc[w] = "recv_ack" /\ dconn[w] = "open" /\ dwire[w] # <<>>
    /\ dconn' = [dconn EXCEPT ![w] = "reset"]
    /\ dwire' = [dwire EXCEPT ![w] = <<>>]
    /\ UNCHANGED <<qvars, lvars, wpc, werr, cur, oul_r21_out, csock, ack,
                   ack_eof_seen, hvars, spc, cvars>>

\* one pass of "while not ack.endswith(footer): ack += recv(4096)" that
\* receives bytes
RecvAck(w) ==
    /\ ProcessAlive
    /\ wpc[w] = "recv_ack" /\ dconn[w] = "open" /\ dwire[w] # <<>>
    /\ ~EndsWith(ack[w], footer)
    /\ \E n \in 1..Min(MaxChunk, Len(dwire[w])) :
          /\ ack' = [ack EXCEPT ![w] = @ \o SubSeq(dwire[w], 1, n)]
          /\ dwire' = [dwire EXCEPT ![w] = SubSeq(@, n + 1, Len(@))]
    /\ UNCHANGED <<qvars, lvars, wpc, werr, cur, oul_r21_out, csock, ack_eof_seen,
                   dconn, hvars, spc, cvars>>

\* one pass of the same loop after the downstream peer closed: recv() returns
\* b'' and the loop condition is unchanged
RecvAckEmpty(w) ==
    /\ ProcessAlive
    /\ wpc[w] = "recv_ack" /\ dconn[w] = "eof"
    /\ ~EndsWith(ack[w], footer)
    /\ ack_eof_seen' = [ack_eof_seen EXCEPT ![w] = TRUE]
    /\ UNCHANGED <<qvars, lvars, wpc, werr, cur, oul_r21_out, csock, ack, dwire,
                   dconn, hvars, spc, cvars>>

\* recv() raises: "finally" closes the socket and the exception leaves
\* msg_worker uncaught
RecvAckRaises(w) ==
    /\ ProcessAlive
    /\ wpc[w] = "recv_ack" /\ dconn[w] = "reset"
    /\ ~EndsWith(ack[w], footer)
    /\ csock' = [csock EXCEPT ![w] = "closed"]
    /\ wpc' = [wpc EXCEPT ![w] = "dead"]
    /\ werr' = [werr EXCEPT ![w] = "start_client"]
    /\ UNCHANGED <<qvars, lvars, cur, oul_r21_out, ack, ack_eof_seen, dwire, dconn,
                   hvars, spc, cvars>>

\* (variant: start_client returns without closing the socket)
AckCompleteNoClose(w) ==
    /\ ProcessAlive
    /\ wpc[w] = "recv_ack"
    /\ EndsWith(ack[w], footer)
    /\ dconn' = [dconn EXCEPT ![w] = "none"]
    /\ wpc' = [wpc EXCEPT ![w] = "task_done"]
    /\ UNCHANGED <<qvars, lvars, werr, cur, oul_r21_out, csock, ack, ack_eof_seen, dwire,
                   hvars, spc, cvars>>

\* the loop ends: strip_mllp_framing(ack), close(), return to msg_worker
AckComplete(w) ==
    /\ ProcessAlive
    /\ wpc[w] = "recv_ack"
    /\ EndsWith(ack[w], footer)
    /\ csock' = [csock EXCEPT ![w] = "closed"]
    /\ dconn' = [dconn EXCEPT ![w] = "none"]
    /\ wpc' = [wpc EXCEPT ![w] = "task_done"]
    /\ UNCHANGED <<qvars, lvars, werr, cur, oul_r21_out, ack, ack_eof_seen, dwire,
                   hvars, spc, cvars>>

\* input_msg_queue.task_done() after start_client returned
TaskDone(w) ==
    /\ ProcessAlive
    /\ wpc[w] = "task_done"
    /\ unfinished_tasks' = unfinished_tasks - 1
    /\ done' = [done EXCEPT ![cur[w].id] = @ + 1]
    /\ cur' = [cur EXCEPT ![w] = NoItem]
    /\ wpc' = [wpc EXCEPT ![w] = "get"]
    /\ UNCHANGED <<queue, lvars, werr, oul_r21_out, csock, ack, ack_eof_seen, dwire,
                   dconn, calls, fails, starts, delivered, sleeps, abandoned, spc, cvars>>

Worker(w) ==
    \/ GetWait(w)
    \/ Get(w)
    \/ ExtractMsgInfo(w)
    \/ InferenceReturns(w)
    \/ InferenceRaises(w)
    \/ Requeue(w)
    \/ CreateMsg(w)
    \/ Connect(w)
    \/ Sendall(w)
    \/ RecvAck(w)
    \/ RecvAckEmpty(w)
    \/ RecvAckRaises(w)
    \/ AckComplete(w)
    \/ TaskDone(w)

\* --------------------------------------------------------------- clean-up
\* cleanup_worker: remove_slides(directory) ...
RemoveSlides ==
    /\ ProcessAlive
    /\ spc = "remove_slides"
    /\ spc' = "sleep"
    /\ UNCHANGED <<qvars, lvars, wvars, hvars, cvars>>

\* ... then time.sleep(sleep_time), for ever
SleepOver ==
    /\ ProcessAlive
    /\ spc = "sleep"
    /\ spc' = "remove_slides"
    /\ UNCHANGED <<qvars, lvars, wvars, hvars, cvars>>

\* ------------------------------------------------------------ specification
Next ==
    \/ Accept
    \/ PeerClose
    \/ PeerReset
    \/ Listener
    \/ \E w \in WorkerThreads : Worker(w)
    \/ \E w \in WorkerThreads : DownClose(w)
    \/ \E w \in WorkerThreads : DownReset(w)
    \/ RemoveSlides
    \/ SleepOver

Spec == Init /\ [][Next]_vars

\* every thread of the process that can take a step eventually takes one
FairSpec ==
    /\ Spec
    /\ WF_vars(Listener)
    /\ \A w \in WorkerThreads : WF_vars(Worker(w))

TypeOK ==
    /\ lpc \in {"accept", "recv", "create_message", "put", "send", "close", "dead"}
    /\ \A w \in WorkerThreads :
          wpc[w] \in {"get", "wait", "extract_msg_info", "run_inference", "sleep", "create_msg",
                      "start_client", "sendall", "recv_ack", "task_done", "dead"}
    /\ unfinished_tasks \in Int
    /\ nsess \in 0..MaxSessions

\* ------------------------------------------------------------------ claims
InQueue(i) == \E k \in 1..Len(queue) : queue[k].id = i
Held(i) == \E w \in WorkerThreads : cur[w].id = i
PastHandoff(i) ==
    \E w \in WorkerThreads :
        /\ cur[w].id = i
        /\ \/ wpc[w] \in {"sendall", "recv_ack", "task_done"}
           \/ werr[w] = "start_client"

\* C1: an item whose callback failed k < max_attempts times and then succeeded
\* has been handed to start_client exactly once and is never dropped; no item
\* is handed to start_client twice.
C1_RetriedItemHandedOffOnce ==
    \A i \in Items :
        /\ starts[i] <= 1
        /\ (fails[i] < nmax => ~abandoned[i])
        /\ (fails[i] < nmax /\ (PastHandoff(i) \/ (done[i] >= 1 /\ ~abandoned[i]))
              => starts[i] = 1)
        /\ (starts[i] = 1 => ~abandoned[i] /\ ~InQueue(i))

\* an item that failed max_attempts - 1 times, then succeeded and is finished
C1_Witness ==
    \E i \in Items :
        fails[i] = nmax - 1 /\ done[i] = 1 /\ starts[i] = 1 /\ ~abandoned[i]

\* C2: an item whose callback failed max_attempts + 1 times in a row is
\* abandoned, and an abandoned item is neither in the queue nor held by the
\* worker in any later state.
C2_AbandonedNeverReappears ==
    \A i \in Items :
        /\ fails[i] <= nmax + 1
        /\ (fails[i] = nmax + 1 => abandoned[i])
        /\ (abandoned[i] => ~InQueue(i) /\ ~Held(i))

\* the first item was abandoned and the worker has gone on to the second
C2_Witness ==
    /\ abandoned[1] /\ fails[1] = nmax + 1
    /\ \E w \in WorkerThreads : cur[w].id = 2 /\ wpc[w] = "run_inference"

\* C3: at most one item is dequeued and not yet finished, and at most one
\* run_inference invocation is in progress, in every reachable state.
C3_SingleLane ==
    /\ Cardinality({w \in WorkerThreads : cur[w] # NoItem}) <= 1
    /\ Cardinality({w \in WorkerThreads : wpc[w] = "run_inference"}) <= 1

\* inference runs while another item waits, the listener is in the middle of
\* an exchange and the clean-up thread is sweeping
C3_Witness ==
    /\ \E w \in WorkerThreads : wpc[w] = "run_inference" /\ cur[w].id = 1
    /\ queue # <<>>
    /\ lpc = "send"
    /\ spc = "remove_slides"

\* C4: when the queue holds a retried item and a fresh item, the worker's next
\* dequeue takes the retried item.
C4_RetriedItemDequeuedFirst ==
    [][\A w \in WorkerThreads :
          (/\ wpc[w] = "get" /\ wpc'[w] = "extract_msg_info"
           /\ \E a, b \in 1..Len(queue) : queue[a].retry >= 1 /\ queue[b].retry = 0)
          => cur'[w].retry >= 1]_vars

\* the retried item A has just been dequeued and the fresh item B, which
\* arrived while A was held by the worker, is still in the queue
C4_Witness ==
    \E w \in WorkerThreads :
        /\ wpc[w] = "extract_msg_info"
        /\ cur[w].retry = 1 /\ cur[w].id = 1
        /\ Len(queue) = 1 /\ queue[1].retry = 0 /\ queue[1].id = 2

\* C5: a connection puts at most one item; the item it puts is appended with
\* the payload the peer framed and retry 0; and the acknowledgment is written
\* only on a connection that has put exactly one item.
C5_OneItemPerExchange ==
    [][/\ nput' <= 1
       /\ (nput' = nput + 1 =>
              queue' = Append(queue, [id |-> nsess, msg |-> sent_payload, retry |-> 0]))
       /\ (ack_out' # ack_out /\ ack_out' # <<>> => nput = 1)]_vars

\* an exchange with bytes before the start byte completed; its item has since
\* been taken and retried by the worker
C5_Witness ==
    /\ lpc = "close" /\ nput = 1 /\ ack_out # <<>>
    /\ input_msg[1] = 7
    /\ fails[nsess] >= 1

\* C6 as stated: the acknowledgment is written before the item is enqueued, so
\* no connection has put an item without having written its acknowledgment.
C6_AckBeforeEnqueue ==
    nput >= 1 => ack_out # <<>>

\* C6 amended: within one exchange the order is decode, build the ack, enqueue
\* (retry 0), write the framed ack, close; the item is enqueued before the
\* acknowledgment is written.
C6_EnqueueBeforeAck ==
    /\ (lpc = "create_message" => nput = 0 /\ ack_out = <<>>)
    /\ (lpc = "put" => /\ ack_msg = AckText(hl7_msg_decoded)
                       /\ nput = 0 /\ ack_out = <<>>)
    /\ (lpc = "send" => nput = 1 /\ ack_out = <<>> /\ conn = "open")
    /\ (lpc = "close" => nput = 1 /\ ack_out = to_mllp(ack_msg) /\ conn = "open")
    /\ (ack_out # <<>> => nput = 1)

\* the worker runs inference on the item of a connection whose acknowledgment
\* has not been written yet
C6_Witness ==
    /\ lpc = "send" /\ ack_out = <<>>
    /\ \E w \in WorkerThreads : cur[w].id = nsess /\ wpc[w] = "run_inference"

\* C7: a connection the peer dropped before the frame was complete puts no
\* item and writes no acknowledgment.
C7_DropEnqueuesNothing ==
    conn \in {"eof", "reset"} =>
        /\ nput = 0
        /\ ack_out = <<>>
        /\ ~InQueue(nsess) /\ ~Held(nsess)
        /\ calls[nsess] = 0

\* the peer closed after the start byte and a payload byte, the listener has
\* read the end of stream, and the first connection's item is in the queue
C7_Witness ==
    /\ conn = "eof" /\ eof_seen /\ Len(input_msg) >= 2
    /\ nsess = 2 /\ InQueue(1)

\* C8 as stated: after the peer closed the connection before the frame was
\* complete, the listener eventually returns to accept.
C8_ListenerReturnsToAccept ==
    (lpc = "recv" /\ conn \in {"eof", "reset"}) ~> (lpc = "accept")

\* C9 as stated: a failure of start_client does not end the worker loop.
C9_WorkerSurvivesSenderFailure ==
    \A w \in WorkerThreads : werr[w] = "start_client" => wpc[w] # "dead"

\* C10 as stated: a failure of any part of the processing callback (reading
\* the order, inference, building the result) is handled by the retry rule and
\* never ends the worker.
C10_CallbackFailureNeverEndsWorker ==
    \A w \in WorkerThreads :
        werr[w] \in {"extract_msg_info", "run_inference", "create_msg"}
            => wpc[w] # "dead"

\* C11: start_client makes one connection attempt per item and sends at most
\* once; an item that has been handed to start_client is never in the queue
\* again, also after the delivery failed.
C11_SenderNeverRetries ==
    [][\A i \in Items :
          /\ starts'[i] <= 1
          /\ (delivered[i] # <<>> => delivered'[i] = delivered[i])
          /\ (starts[i] >= 1 => \A k \in 1..Len(queue') : queue'[k].id # i)]_vars

\* the connection for the first item was refused; the second item is in the
\* queue and the first is not
C11_Witness ==
    \E w \in WorkerThreads :
        /\ werr[w] = "start_client" /\ cur[w].id = 1
        /\ csock[w] = "closed" /\ delivered[1] = <<>>
        /\ starts[1] = 1
        /\ InQueue(2) /\ ~InQueue(1)

\* C12: every step changes the queue by exactly one of: the listener's append
\* of its fresh item, the worker's front insert of the item it holds with
\* retry one higher, the worker's removal of the head into its hand; or leaves
\* it alone. No item is in the queue twice, nor in the queue and in the
\* worker's hand.
C12_QueueOpsAtomic ==
    [][/\ \/ queue' = queue
          \/ /\ lpc = "put"
             /\ queue' = Append(queue, [id |-> nsess, msg |-> hl7_msg_decoded, retry |-> 0])
          \/ \E w \in WorkerThreads :
                /\ wpc[w] = "sleep"
                /\ queue' = <<[cur[w] EXCEPT !.retry = @ + 1]>> \o queue
                /\ cur'[w] = NoItem
          \/ \E w \in WorkerThreads :
                /\ wpc[w] = "get" /\ queue # <<>>
                /\ queue' = Tail(queue)
                /\ cur'[w] = Head(queue)
       /\ \A a, b \in 1..Len(queue') : queue'[a].id = queue'[b].id => a = b
       /\ \A k \in 1..Len(queue') : \A w \in WorkerThreads : cur'[w].id # queue'[k].id]_vars

\* the listener appended the second item while the worker slept in the backoff
\* of the first, and the worker has then put the first in front of it
C12_Witness ==
    /\ Len(queue) = 2
    /\ queue[1].id = 1 /\ queue[1].retry = 1
    /\ queue[2].id = 2 /\ queue[2].retry = 0
    /\ sleeps[1] = 1

\* C13: accept() is issued only with no inbound connection open, and after the
\* first connection only when the previous exchange has read its frame, put
\* its item, written its acknowledgment and closed its socket.
C13_InboundSerialized ==
    [][nsess' = nsess + 1 =>
          /\ conn = "none"
          /\ (nsess >= 1 =>
                 /\ EndsWith(input_msg, footer)
                 /\ nput = 1
                 /\ ack_out = to_mllp(ack_msg))]_vars

\* the second connection has been accepted after the first was closed
C13_Witness ==
    nsess = 2 /\ lpc = "recv" /\ conn = "open" /\ InQueue(1)

\* C16: with one client whose order's callback succeeds at the first attempt:
\* one item is enqueued, the acknowledgment written is the framed ACK built
\* from the order, the bytes sent downstream are the framed result built from
\* the order, sent once, and once the item is done the queue is empty and
\* stays empty.
C16_EndToEnd ==
    (nsess = 1 /\ fails[1] = 0) =>
        /\ Len(queue) <= 1
        /\ (lpc \in {"close", "accept"} =>
               nput = 1 /\ ack_out = to_mllp(AckText(sent_payload)))
        /\ (nput = 1 =>
               Cardinality({x \in {"queue", "hand", "done"} :
                   \/ x = "queue" /\ InQueue(1)
                   \/ x = "hand" /\ Held(1)
                   \/ x = "done" /\ done[1] = 1}) = 1)
        /\ (delivered[1] # <<>> =>
               starts[1] = 1 /\ delivered[1] = to_mllp(ResultText(sent_payload)))
        /\ (done[1] = 1 =>
               /\ queue = <<>> /\ unfinished_tasks = 0
               /\ delivered[1] = to_mllp(ResultText(sent_payload)))

\* the single exchange and the single delivery are over and the queue is empty
C16_Witness ==
    /\ nsess = 1 /\ lpc = "accept" /\ sent_payload = <<65, 66>>
    /\ ack_out = to_mllp(AckText(<<65, 66>>))
    /\ fails[1] = 0 /\ done[1] = 1 /\ queue = <<>>
    /\ delivered[1] = to_mllp(ResultText(<<65, 66>>))

\* C17: with max_attempts = 3, an item whose callback failed twice and then
\* succeeded was invoked three times with a backoff sleep before the second
\* and before the third invocation, was delivered once, and is not in the
\* queue; with that item alone the final queue is empty.
C17_TwoFailuresThenSuccess ==
    /\ nmax = 3
    /\ \A w \in WorkerThreads :
          wpc[w] = "run_inference" =>
              /\ sleeps[cur[w].id] = calls[cur[w].id] - 1
              /\ sleeps[cur[w].id] = fails[cur[w].id]
    /\ \A i \in Items :
          (fails[i] = 2 /\ done[i] = 1 /\ ~abandoned[i]) =>
              /\ calls[i] = 3
              /\ sleeps[i] = 2
              /\ starts[i] = 1 /\ delivered[i] # <<>>
              /\ ~InQueue(i)
              /\ (nsess = 1 => queue = <<>> /\ unfinished_tasks = 0)

\* the only item failed twice, succeeded and is done
C17_Witness ==
    /\ nsess = 1 /\ fails[1] = 2 /\ calls[1] = 3 /\ sleeps[1] = 2
    /\ done[1] = 1 /\ ~abandoned[1] /\ queue = <<>>

\* C19 as stated: a received stream that ends with the end bytes and has no
\* start byte before them is aborted like a transport error: nothing is put on
\* the queue and no acknowledgment is written for it.
C19_MalformedFrameAborted ==
    (nsess >= 1 /\ EndsWith(input_msg, footer) /\ Find(input_msg, <<SB>>) = -1) =>
        nput = 0 /\ ack_out = <<>>

\* C20 as stated: when the downstream peer closes before the acknowledgment is
\* complete, start_client returns to msg_worker (or the process has ended).
C20_SenderReturnsOnClose ==
    \A w \in WorkerThreads :
        (wpc[w] = "recv_ack" /\ dconn[w] = "eof")
            ~> (wpc[w] # "recv_ack" \/ lpc = "dead")

\* C21: a worker blocked in get is blocked only while the queue is empty, and
\* a worker in get with a non-empty queue, whether the head was appended by
\* the listener or put in front by the worker itself, eventually takes an item
\* (as long as the process lives).
C21_GetResumes ==
    /\ [](\A w \in WorkerThreads : wpc[w] = "wait" => queue = <<>>)
    /\ \A w \in WorkerThreads :
          (wpc[w] \in {"get", "wait"} /\ queue # <<>>)
              ~> (wpc[w] \notin {"get", "wait"} \/ lpc = "dead")

\* the worker is back in get after its second front insert, with a fresh item
\* from the listener behind the retried one
C21_Witness ==
    \E w \in WorkerThreads :
        /\ wpc[w] = "get"
        /\ Len(queue) = 2 /\ queue[1].retry = 2 /\ queue[2].retry = 0

\* C22: a callback failure with retry < max_attempts leaves the queue alone and
\* starts the backoff sleep; the step that ends the sleep puts the same payload
\* with retry + 1 in front of the queue, and only that step puts a retried
\* item in front; a failure with retry >= max_attempts starts no sleep, inserts
\* nothing and leaves the queue as it was.
C22_BackoffThenFrontInsert ==
    [][\A w \in WorkerThreads :
          /\ (wpc[w] = "run_inference" /\ fails' # fails) =>
                /\ queue' = queue
                /\ IF cur[w].retry < nmax
                   THEN /\ wpc'[w] = "sleep"
                        /\ cur'[w] = cur[w]
                        /\ sleeps'[cur[w].id] = sleeps[cur[w].id] + 1
                   ELSE /\ wpc'[w] = "get"
                        /\ cur'[w] = NoItem
                        /\ sleeps' = sleeps
          /\ (wpc[w] = "sleep" /\ wpc'[w] # "sleep") =>
                queue' = <<[id |-> cur[w].id, msg |-> cur[w].msg,
                            retry |-> cur[w].retry + 1]>> \o queue
          /\ (/\ Len(queue') = Len(queue) + 1
              /\ Tail(queue') = queue
              /\ queue'[1].retry >= 1) => wpc[w] = "sleep"]_vars

\* the first item was retried max_attempts times, each time after a sleep, and
\* dropped at the next failure, with the second item still alone in the queue
C22_Witness ==
    /\ abandoned[1] /\ sleeps[1] = nmax /\ fails[1] = nmax + 1
    /\ Len(queue) = 1 /\ queue[1].id = 2
    /\ \A w \in WorkerThreads : wpc[w] = "get"

\* C23: an item enqueued after another is not handed to run_inference, and
\* does not finish, before the earlier one is done (delivered or abandoned).
C23_HeadOfLine ==
    \A i, j \in Items :
        i < j =>
            /\ (calls[j] >= 1 => done[i] = 1)
            /\ (done[j] = 1 => done[i] = 1)

\* the first item is in its third attempt while the second, which arrived in
\* the meantime, waits in the queue untouched
C23_Witness ==
    /\ \E w \in WorkerThreads :
          wpc[w] = "run_inference" /\ cur[w].id = 1 /\ cur[w].retry = 2
    /\ Len(queue) = 1 /\ queue[1].id = 2 /\ calls[2] = 0

\* C24: start_client sends on a connected socket, reads the acknowledgment
\* after it has sent, and has closed the socket when it returns or raises; the
\* socket is open only between connect and the end of the read; task_done
\* follows the full acknowledgment.
C24_SenderOrder ==
    \A w \in WorkerThreads :
        /\ (wpc[w] = "sendall" =>
               csock[w] = "connected" /\ delivered[cur[w].id] = <<>>)
        /\ (wpc[w] = "recv_ack" =>
               csock[w] = "connected" /\ delivered[cur[w].id] = oul_r21_out[w])
        /\ (wpc[w] = "task_done" =>
               /\ csock[w] = "closed"
               /\ ack[w] = DownstreamAck
               /\ delivered[cur[w].id] = oul_r21_out[w]
               /\ done[cur[w].id] = 0)
        /\ (werr[w] = "start_client" => csock[w] = "closed")
        /\ (csock[w] = "connected" => wpc[w] \in {"sendall", "recv_ack"})
        /\ \A i \in Items : (done[i] = 1 /\ ~abandoned[i]) => delivered[i] # <<>>

\* the first item was delivered, acknowledged and marked done; the connection
\* for the second was refused and its socket is closed as well
C24_Witness ==
    \E w \in WorkerThreads :
        /\ done[1] = 1 /\ delivered[1] # <<>> /\ ~abandoned[1]
        /\ werr[w] = "start_client" /\ cur[w].id = 2 /\ csock[w] = "closed"
        /\ delivered[2] = <<>>

\* C25 as stated: a failure of create_ack_msg.create_message does not end the
\* accept loop.
C25_AckBuilderFailureSurvived ==
    lerr = "create_message" => lpc # "dead"

\* C26 as stated: while the process runs, every item the listener has put is
\* in exactly one place: in the queue (once), in the hand of a running worker,
\* or finished.
C26_ItemConservation ==
    lpc # "dead" =>
        \A i \in Items :
            (i < nsess \/ (i = nsess /\ nput = 1)) =>
                /\ Cardinality({k \in 1..Len(queue) : queue[k].id = i}) <= 1
                /\ Cardinality({x \in {"queue", "hand", "terminal"} :
                       \/ x = "queue" /\ InQueue(i)
                       \/ x = "hand" /\ \E w \in WorkerThreads :
                                           cur[w].id = i /\ wpc[w] # "dead"
                       \/ x = "terminal" /\ done[i] = 1}) = 1

\* C27: run_inference is invoked at most max_attempts + 1 times for an item;
\* the item is abandoned exactly when max_attempts + 1 invocations have
\* failed; an item that failed max_attempts times and then succeeded is
\* delivered and not abandoned.
C27_AbandonedIffCeilingExceeded ==
    \A i \in Items :
        /\ calls[i] <= nmax + 1
        /\ fails[i] <= calls[i]
        /\ (abandoned[i] <=> fails[i] = nmax + 1)
        /\ (fails[i] = nmax /\ calls[i] = nmax + 1 /\ done[i] = 1 =>
               ~abandoned[i] /\ delivered[i] # <<>>)

\* the first item succeeded at its last permitted attempt; the second failed
\* once more and was abandoned
C27_Witness ==
    /\ fails[1] = nmax /\ calls[1] = nmax + 1 /\ done[1] = 1
    /\ ~abandoned[1] /\ delivered[1] # <<>>
    /\ abandoned[2] /\ calls[2] = nmax + 1

\* C28: the queue holds at most one item with retry > 0, that item is the
\* head, and every item in the queue has 0 <= retry <= max_attempts.
C28_RetriedOnlyAtHead ==
    /\ Cardinality({k \in 1..Len(queue) : queue[k].retry > 0}) <= 1
    /\ \A k \in 1..Len(queue) : queue[k].retry > 0 => k = 1
    /\ \A k \in 1..Len(queue) : queue[k].retry \in 0..nmax

\* an item at its last permitted retry is the head, with a fresh item behind
C28_Witness ==
    /\ Len(queue) = 2
    /\ queue[1].retry = nmax /\ queue[2].retry = 0

\* C29: unfinished_tasks is the number of puts less the number of task_done
\* calls and is never negative; an item has task_done called at most once,
\* when it is abandoned or after start_client returned for it; the front
\* insert changes neither count.
C29_TaskAccounting ==
    [][/\ unfinished_tasks' >= 0
       /\ unfinished_tasks' =
             Cardinality({i \in Items : i < nsess' \/ (i = nsess' /\ nput' = 1)})
             - Cardinality({i \in Items : done'[i] = 1})
       /\ \A i \in Items :
             /\ done'[i] <= 1
             /\ (done'[i] = 1 => abandoned'[i] \/ delivered'[i] # <<>>)
             /\ (done'[i] > done[i] =>
                    \/ abandoned'[i] /\ ~abandoned[i]
                    \/ \E w \in WorkerThreads :
                          /\ wpc[w] = "task_done" /\ cur[w].id = i
                          /\ delivered[i] # <<>>)
       /\ \A w \in WorkerThreads :
             (wpc[w] = "sleep" /\ wpc'[w] # "sleep") =>
                 /\ unfinished_tasks' = unfinished_tasks
                 /\ done' = done
                 /\ nput' = nput]_vars

\* the first item was abandoned; the second has been reinserted and is the
\* one unfinished task
C29_Witness ==
    /\ abandoned[1] /\ done[1] = 1
    /\ Len(queue) = 1 /\ queue[1].id = 2 /\ queue[1].retry >= 1
    /\ unfinished_tasks = 1 /\ done[2] = 0

\* C30: in a behaviour where the process and the worker thread keep running
\* (nothing raises outside run_inference) and the downstream peer never closes
\* before its acknowledgment is complete, every item that is in the queue or
\* in the worker's hand eventually has task_done called for it, and the queue
\* is eventually empty for good.
C30_EveryItemFinishes ==
    ([](lpc # "dead" /\ \A w \in WorkerThreads : wpc[w] # "dead" /\ dconn[w] # "eof"))
        => /\ \A i \in Items : (InQueue(i) \/ Held(i)) ~> (done[i] = 1)
           /\ <>[](queue = <<>>)

\* both items are finished, one abandoned and one delivered after a retry, and
\* the queue is empty
C30_Witness ==
    /\ done[1] = 1 /\ abandoned[1]
    /\ done[2] = 1 /\ ~abandoned[2] /\ fails[2] >= 1
    /\ queue = <<>> /\ unfinished_tasks = 0
    /\ lpc # "dead"

\* ------------------------------------------------------------- decoder run
\* The receive loop and strip_mllp_framing on their own, as both
\* store_msg_produce_ack and start_client run them, over every payload and
\* every run of leading bytes without a start byte, received in every
\* possible segmentation.
CodecInit ==
    /\ SysInit
    /\ c_garbage \in SeqsUpTo(Alphabet \ {SB}, MaxGarbageLen)
    /\ c_payload \in SeqsUpTo(Alphabet, MaxPayloadLen)
    /\ c_rest = c_garbage \o to_mllp(c_payload)
    /\ c_buf = <<>>
    /\ c_nrecv = 0
    /\ c_pc = "recv"
    /\ c_out = <<>>

\* one pass of "while not buf.endswith(footer): buf += recv(4096)"; recv
\* returns any non-empty prefix of what is in flight
CodecRecv ==
    /\ c_pc = "recv"
    /\ ~EndsWith(c_buf, footer)
    /\ \E n \in 1..Len(c_rest) :
          /\ c_buf' = c_buf \o SubSeq(c_rest, 1, n)
          /\ c_rest' = SubSeq(c_rest, n + 1, Len(c_rest))
    /\ c_nrecv' = c_nrecv + 1
    /\ UNCHANGED <<c_garbage, c_payload, c_pc, c_out, sysvars>>

\* the loop ends and strip_mllp_framing is applied to what was received
CodecReturn ==
    /\ c_pc = "recv"
    /\ EndsWith(c_buf, footer)
    /\ c_out' = strip_mllp_framing(c_buf)
    /\ c_pc' = "returned"
    /\ UNCHANGED <<c_garbage, c_payload, c_rest, c_buf, c_nrecv, sysvars>>

CodecNext ==
    \/ CodecRecv
    \/ CodecReturn

CodecSpec == CodecInit /\ [][CodecNext]_vars

\* C14 as stated: for every payload P the decoder returns P from the stream
\* encode(P).
C14_RoundTripAllPayloads ==
    (c_pc = "returned" /\ c_garbage = <<>>) => c_out = c_payload

\* C14 amended: for every payload P that does not contain the end bytes
\* 0x1C 0x0D, the decoder returns P from the stream encode(P).
C14_RoundTrip ==
    (c_pc = "returned" /\ c_garbage = <<>> /\ Find(c_payload, footer) = -1)
        => c_out = c_payload

\* a payload made of a start byte and the first end byte was returned unchanged
C14_Witness ==
    /\ c_pc = "returned" /\ c_garbage = <<>>
    /\ c_payload = <<SB, EB>> /\ c_out = <<SB, EB>>

\* C15 as stated: with bytes before the start byte, the decoder discards them
\* and returns the payload of the start/end pair that follows.
C15_GarbageDiscarded ==
    (c_pc = "returned" /\ c_garbage # <<>> /\ Find(c_payload, footer) = -1)
        => c_out = c_payload

\* C18 as stated: for every payload and every segmentation of encode(P) the
\* loop ends after the last chunk, not before, and P is returned.
C18_AnySegmentationAllPayloads ==
    (c_pc = "returned" /\ c_garbage = <<>>) => c_rest = <<>> /\ c_out = c_payload

\* C18 amended: for every payload P that does not contain the end bytes and
\* every segmentation of encode(P), the loop goes on while bytes are still to
\* come, ends after the last chunk, and P is returned.
C18_AnySegmentation ==
    (c_pc # "idle" /\ c_garbage = <<>> /\ Find(c_payload, footer) = -1) =>
        /\ (c_rest # <<>> => c_pc = "recv" /\ ~EndsWith(c_buf, footer))
        /\ (c_pc = "returned" =>
               /\ c_rest = <<>>
               /\ c_buf = to_mllp(c_payload)
               /\ c_out = c_payload)

\* a frame whose payload holds the second end byte arrived one byte per recv
C18_Witness ==
    /\ c_pc = "returned" /\ c_garbage = <<>>
    /\ c_payload = <<CR, 65>>
    /\ c_nrecv = Len(to_mllp(c_payload))
    /\ c_out = c_payload

====
